---- MODULE Spec2Model ----
(***************************************************************************)
(* Model of the media-segment caching proxy of aniwatch-api                *)
(* (src/unnamed/part_003): the module-level Map `cache`, getCached,        *)
(* setCache, rewritePlaylistUrls, fetchWithCustomReferer and the GET "/"   *)
(* handler of proxyRouter; and of the cache-aside helper getOrSet of       *)
(* AniwatchAPICache (src/unnamed/part_000) with its callers in             *)
(* src/src/helpers/chatCache.ts, src/src/helpers/profileCache.ts and       *)
(* src/src/routes/chat.ts; and of authMiddleware and adminMiddleware       *)
(* (src/src/middleware/auth.ts).                                           *)
(*                                                                         *)
(* JavaScript runs the handler's code between two awaits as one atomic     *)
(* step, so every action below is one such synchronous segment.            *)
(***************************************************************************)
EXTENDS Integers, Sequences, FiniteSets, TLC

VARIABLES cache, now, ticks, lastOp, reqs, written, rewriteCall

\* The Redis store behind getOrSet, the number of documents of the
\* collection chatMessages, the time in seconds, the calls of getOrSet and
\* the POST /messages requests.
VARIABLES redis, messages, clock, calls, posts

asideVars == <<redis, messages, clock, calls, posts>>

\* The requests that pass through authMiddleware or adminMiddleware.
VARIABLES auths

vars == <<cache, now, ticks, lastOp, reqs, written, rewriteCall, asideVars,
          auths>>

(***************************************************************************)
(* Bounds of the model.                                                    *)
(***************************************************************************)
\* Scaled stand-in for the literal 1000 in `cache.size > 1000` (setCache).
CacheLimit == 2
\* Number of times the clock may advance in one behaviour.
MaxTicks == 1
\* Number of requests the handler receives in one behaviour.
NumReqs == 2
\* Number of pieces a playlist text is put together from.
MaxPieces == 4
\* Number of calls of getOrSet and of POST /messages in one behaviour, and
\* number of times the clock of the Redis store may advance.
NumCalls == 2
NumPosts == 1
MaxAdvances == 1
\* Number of requests that pass through a middleware in one behaviour.
NumAuths == 1

(***************************************************************************)
(* Program constants.                                                      *)
(***************************************************************************)
CACHE_TTL_M3U8 == 10 * 60 * 1000
CACHE_TTL_SEGMENT == 60 * 60 * 1000

(***************************************************************************)
(* JavaScript values: a payload is a string or a Buffer; null is the       *)
(* result of a miss.  All three are records so that they can be compared.  *)
(***************************************************************************)
Str(s) == [kind |-> "string", val |-> s]
\* Variant: the bytes are kept as a text.
Buf_asText(s) == [kind |-> "string", val |-> s]

Buf(s) == [kind |-> "Buffer", val |-> s]
null == [kind |-> "null", val |-> ""]

\* JavaScript truthiness of `string | Buffer | null`: null and the empty
\* string are falsy, every object (a Buffer, also an empty one) is truthy.
Truthy(v) == \/ v.kind = "Buffer"
             \/ (v.kind = "string" /\ v.val # "")

\* String.prototype.endsWith
endsWith(s, suffix) ==
    /\ Len(s) >= Len(suffix)
    /\ SubSeq(s, Len(s) - Len(suffix) + 1, Len(s)) = suffix

(***************************************************************************)
(* The JavaScript Map: a sequence of [key, value] in insertion order.      *)
(* set() of a held key replaces the value in place and keeps the key's     *)
(* position; delete() removes the pair; keys().next().value is the key of  *)
(* the first pair.                                                         *)
(***************************************************************************)
MapHas(m, k) == \E i \in 1..Len(m) : m[i].key = k
MapIndex(m, k) == CHOOSE i \in 1..Len(m) : m[i].key = k
\* Variant: the value of the first entry, whatever its key.
MapGet_firstEntry(m, k) == m[1].value

MapGet(m, k) == m[MapIndex(m, k)].value
MapDelete(m, k) == SelectSeq(m, LAMBDA e : e.key # k)
\* Variant: set() always adds a pair, also for a held key.
MapSet_alwaysAppends(m, k, v) == Append(m, [key |-> k, value |-> v])

MapSet(m, k, v) ==
    IF MapHas(m, k)
    THEN [m EXCEPT ![MapIndex(m, k)] = [key |-> k, value |-> v]]
    ELSE Append(m, [key |-> k, value |-> v])
MapKeys(m) == {m[i].key : i \in 1..Len(m)}

(***************************************************************************)
(* getCached(url) at time t on map m: the returned value and the map       *)
(* afterwards.                                                             *)
(***************************************************************************)
\* Variant: an entry whose age equals its TTL counts as expired.
getCached_expiresAtTtl(m, url, t) ==
    IF ~MapHas(m, url)
    THEN [ret |-> null, cache |-> m]
    ELSE LET cached == MapGet(m, url)
             isM3U8 == endsWith(url, ".m3u8")
             ttl == IF isM3U8 THEN CACHE_TTL_M3U8 ELSE CACHE_TTL_SEGMENT
         IN  IF t - cached.timestamp >= ttl
             THEN [ret |-> null, cache |-> MapDelete(m, url)]
             ELSE [ret |-> cached.data, cache |-> m]

\* Variant: a hit makes the entry the newest one (LRU): it moves to the end
\* of the Map and takes the time of the read.
getCached_refreshesOnHit(m, url, t) ==
    IF ~MapHas(m, url) THEN [ret |-> null, cache |-> m]
    ELSE IF t - MapGet(m, url).timestamp >
                (IF endsWith(url, ".m3u8") THEN CACHE_TTL_M3U8
                 ELSE CACHE_TTL_SEGMENT)
         THEN [ret |-> null, cache |-> MapDelete(m, url)]
         ELSE [ret |-> MapGet(m, url).data,
               cache |-> Append(MapDelete(m, url),
                                [key |-> url,
                                 value |-> [data |-> MapGet(m, url).data,
                                            timestamp |-> t]])]

\* Variant: a hit takes the entry out of the Map.
getCached_readsOnce(m, url, t) ==
    IF ~MapHas(m, url) THEN [ret |-> null, cache |-> m]
    ELSE IF t - MapGet(m, url).timestamp >
                (IF endsWith(url, ".m3u8") THEN CACHE_TTL_M3U8
                 ELSE CACHE_TTL_SEGMENT)
         THEN [ret |-> null, cache |-> MapDelete(m, url)]
         ELSE [ret |-> MapGet(m, url).data, cache |-> MapDelete(m, url)]

getCached(m, url, t) ==
    IF ~MapHas(m, url)
    THEN [ret |-> null, cache |-> m]
    ELSE LET cached == MapGet(m, url)
             isM3U8 == endsWith(url, ".m3u8")
             ttl == IF isM3U8 THEN CACHE_TTL_M3U8 ELSE CACHE_TTL_SEGMENT
         IN  IF t - cached.timestamp > ttl
             THEN [ret |-> null, cache |-> MapDelete(m, url)]
             ELSE [ret |-> cached.data, cache |-> m]

(***************************************************************************)
(* setCache(url, data) at time t on map m: the map afterwards.             *)
(***************************************************************************)
\* Variant: a set first sweeps the expired entries out of the Map.
setCache_sweepsExpired(m, url, data, t) ==
    LET live == SelectSeq(m, LAMBDA e :
                    t - e.value.timestamp <=
                        (IF endsWith(e.key, ".m3u8") THEN CACHE_TTL_M3U8
                         ELSE CACHE_TTL_SEGMENT))
        m1 == IF Len(live) > CacheLimit THEN Tail(live) ELSE live
    IN  MapSet(m1, url, [data |-> data, timestamp |-> t])

setCache(m, url, data, t) ==
    LET m1 == IF Len(m) > CacheLimit
              THEN LET firstKey == m[1].key
                   IN  IF firstKey # "" THEN MapDelete(m, firstKey) ELSE m
              ELSE m
    IN  MapSet(m1, url, [data |-> data, timestamp |-> t])

(***************************************************************************)
(* Strings.  A string is a sequence of characters; Char(s, i) is its i-th  *)
(* character as a one-character string.                                    *)
(***************************************************************************)
Char(s, i) == SubSeq(s, i, i)

\* String.prototype.startsWith
startsWith(s, prefix) ==
    /\ Len(s) >= Len(prefix)
    /\ SubSeq(s, 1, Len(prefix)) = prefix

\* First position >= i of character ch in s, or 0 (String.prototype.indexOf).
RECURSIVE IndexFrom(_, _, _)
IndexFrom(s, ch, i) ==
    IF i > Len(s) THEN 0
    ELSE IF Char(s, i) = ch THEN i
    ELSE IndexFrom(s, ch, i + 1)

\* Last position of character ch in s, or 0 (String.prototype.lastIndexOf).
RECURSIVE LastIndexUpTo(_, _, _)
LastIndexUpTo(s, ch, i) ==
    IF i < 1 THEN 0
    ELSE IF Char(s, i) = ch THEN i
    ELSE LastIndexUpTo(s, ch, i - 1)

\* String.prototype.split("\n"): the pieces between line feeds; the empty
\* string splits into one empty piece.
RECURSIVE split(_)
split(s) ==
    LET i == IndexFrom(s, "\n", 1)
    IN  IF i = 0 THEN <<s>>
        ELSE <<SubSeq(s, 1, i - 1)>> \o split(SubSeq(s, i + 1, Len(s)))

\* Array.prototype.join("\n")
RECURSIVE join(_)
join(lines) ==
    IF Len(lines) = 0 THEN ""
    ELSE IF Len(lines) = 1 THEN lines[1]
    ELSE lines[1] \o "\n" \o join(Tail(lines))

\* White space and line terminators removed by String.prototype.trim.
IsSpace(ch) == ch \in {" ", "\t", "\r", "\n"}

RECURSIVE trimStart(_)
trimStart(s) ==
    IF Len(s) > 0 /\ IsSpace(Char(s, 1))
    THEN trimStart(SubSeq(s, 2, Len(s)))
    ELSE s

RECURSIVE trimEnd(_)
trimEnd(s) ==
    IF Len(s) > 0 /\ IsSpace(Char(s, Len(s)))
    THEN trimEnd(SubSeq(s, 1, Len(s) - 1))
    ELSE s

\* String.prototype.trim
trim(s) == trimEnd(trimStart(s))

\* The printable ASCII characters, code 32 (space) first.  The grave accent
\* (code 96) cannot be written in a string here; a tab holds its place.
Ascii == " !\"#$%&'()*+,-./0123456789:;<=>?@ABCDEFGHIJKLMNOPQRSTUVWXYZ[\\]^_\tabcdefghijklmnopqrstuvwxyz{|}~"

\* Character code of an ASCII character (String.prototype.charCodeAt);
\* tab, line feed and carriage return are below the printable range.
CharCode(ch) ==
    IF ch = "\t" THEN 9
    ELSE IF ch = "\n" THEN 10
    ELSE IF ch = "\r" THEN 13
    ELSE 31 + IndexFrom(Ascii, ch, 1)

HexDigit(n) == Char("0123456789ABCDEF", n + 1)

\* Characters encodeURIComponent leaves as they are.
Unreserved ==
    {Char(Ascii, i) : i \in {j \in 1..Len(Ascii) :
        \/ (j + 31 >= 48 /\ j + 31 <= 57)
        \/ (j + 31 >= 65 /\ j + 31 <= 90)
        \/ (j + 31 >= 97 /\ j + 31 <= 122)}}
    \cup {"-", "_", ".", "!", "~", "*", "'", "(", ")"}

\* encodeURIComponent on ASCII text.
RECURSIVE encodeURIComponent(_)
encodeURIComponent(s) ==
    IF Len(s) = 0 THEN ""
    ELSE LET ch == Char(s, 1)
             c == CharCode(ch)
             enc == IF ch \in Unreserved THEN ch
                    ELSE "%" \o HexDigit(c \div 16) \o HexDigit(c % 16)
         IN  enc \o encodeURIComponent(SubSeq(s, 2, Len(s)))

\* Decimal text of a natural number (template literal `${n}`).
RECURSIVE numberToString(_)
numberToString(n) ==
    IF n < 10 THEN Char("0123456789", n + 1)
    ELSE numberToString(n \div 10) \o Char("0123456789", (n % 10) + 1)

\* Number(digits) for a string of decimal digits.
RECURSIVE DecimalValue(_)
DecimalValue(digits) ==
    IF digits = "" THEN 0
    ELSE DecimalValue(SubSeq(digits, 1, Len(digits) - 1)) * 10
         + (IndexFrom("0123456789", Char(digits, Len(digits)), 1) - 1)

(***************************************************************************)
(* new URL(input) and new URL(input, base), after the URL Standard, for    *)
(* ASCII references whose scheme, if any, is in lower case and followed by *)
(* "//", without credentials, dot segments or an IPv6 host.  The           *)
(* constructor throws (ok = FALSE) when an input without base has no       *)
(* scheme, and when the host is empty or holds a forbidden character.      *)
(***************************************************************************)
UrlFail == [ok |-> FALSE, scheme |-> "", host |-> "", path |-> "",
            query |-> "", fragment |-> ""]

\* The parser drops every tab, line feed and carriage return of its input.
RECURSIVE RemoveTabsAndNewlines(_)
RemoveTabsAndNewlines(s) ==
    IF Len(s) = 0 THEN ""
    ELSE (IF Char(s, 1) \in {"\t", "\n", "\r"} THEN "" ELSE Char(s, 1))
         \o RemoveTabsAndNewlines(SubSeq(s, 2, Len(s)))

SchemeStart == {Char("abcdefghijklmnopqrstuvwxyz", i) : i \in 1..26}
SchemeChars == SchemeStart \cup {Char("0123456789+-.", i) : i \in 1..13}

\* The scheme of a reference with its colon ("https:"), or "" when the
\* reference has none: a letter, then letters, digits, "+", "-" and ".", up
\* to the first colon.
UrlScheme(s) ==
    LET colon == IndexFrom(s, ":", 1)
    IN  IF /\ colon > 1
           /\ Char(s, 1) \in SchemeStart
           /\ \A i \in 2..(colon - 1) : Char(s, i) \in SchemeChars
        THEN SubSeq(s, 1, colon)
        ELSE ""

IsSpecial(scheme) == scheme \in {"http:", "https:", "ws:", "wss:", "ftp:"}

\* Percent-encoding of the characters of `set`.
RECURSIVE PercentEncode(_, _)
PercentEncode(s, set) ==
    IF Len(s) = 0 THEN ""
    ELSE (IF Char(s, 1) \in set
          THEN "%" \o HexDigit(CharCode(Char(s, 1)) \div 16)
                   \o HexDigit(CharCode(Char(s, 1)) % 16)
          ELSE Char(s, 1))
         \o PercentEncode(SubSeq(s, 2, Len(s)), set)

\* The ASCII characters the parser escapes in a path, a query, a fragment.
PathEncodeSet == {" ", "\"", "<", ">", "{", "}"}
QueryEncodeSet == {" ", "\"", "<", ">", "'"}
FragmentEncodeSet == {" ", "\"", "<", ">"}
\* The characters a host must not hold.
ForbiddenHost == {" ", "<", ">", "@", "[", "\\", "]", "^", "|", "%"}

\* Splits "path?query#fragment": the fragment ("" or "#..."), what is before
\* it, and of that the path and the query ("" or "?...").
FragmentOf(s) ==
    LET h == IndexFrom(s, "#", 1)
    IN  IF h = 0 THEN "" ELSE SubSeq(s, h, Len(s))
BeforeFragment(s) ==
    LET h == IndexFrom(s, "#", 1)
    IN  IF h = 0 THEN s ELSE SubSeq(s, 1, h - 1)
PathOf(s) ==
    LET b == BeforeFragment(s)
        q == IndexFrom(b, "?", 1)
    IN  PercentEncode(IF q = 0 THEN b ELSE SubSeq(b, 1, q - 1),
                      PathEncodeSet)
QueryOf(s) ==
    LET b == BeforeFragment(s)
        q == IndexFrom(b, "?", 1)
    IN  IF q = 0 THEN ""
        ELSE PercentEncode(SubSeq(b, q, Len(b)), QueryEncodeSet)
EncodedFragmentOf(s) == PercentEncode(FragmentOf(s), FragmentEncodeSet)

\* First position of "/", "?" or "#" in s, or Len(s) + 1.
RECURSIVE AuthorityEnd(_, _)
AuthorityEnd(s, i) ==
    IF i > Len(s) THEN i
    ELSE IF Char(s, i) \in {"/", "?", "#"} THEN i
    ELSE AuthorityEnd(s, i + 1)

\* new URL(s) for an absolute reference.
parseUrl(s) ==
    LET input == RemoveTabsAndNewlines(trim(s))
        scheme == UrlScheme(input)
        after == SubSeq(input, Len(scheme) + 1, Len(input))
        rest == SubSeq(after, 3, Len(after))
        hostEnd == AuthorityEnd(rest, 1)
        authority == SubSeq(rest, 1, hostEnd - 1)
        colon == IndexFrom(authority, ":", 1)
        hostname == IF colon = 0 THEN authority
                    ELSE SubSeq(authority, 1, colon - 1)
        port == IF colon = 0 THEN ""
                ELSE SubSeq(authority, colon + 1, Len(authority))
        tail == SubSeq(rest, hostEnd, Len(rest))
    IN  IF \/ scheme = ""
           \/ ~startsWith(after, "//")
           \/ hostname = ""
           \/ \E i \in 1..Len(hostname) : Char(hostname, i) \in ForbiddenHost
           \/ \E i \in 1..Len(port) :
                 IndexFrom("0123456789", Char(port, i), 1) = 0
        THEN UrlFail
        ELSE [ok |-> TRUE, scheme |-> scheme,
              host |-> IF port = "" THEN hostname
                       ELSE hostname \o ":" \o port,
              path |-> IF PathOf(tail) = "" /\ IsSpecial(scheme) THEN "/"
                       ELSE PathOf(tail),
              query |-> QueryOf(tail),
              fragment |-> EncodedFragmentOf(tail)]

\* new URL(input, base) for a parsed base.
resolveUrl(reference, base) ==
    LET input == RemoveTabsAndNewlines(trim(reference))
    IN  IF UrlScheme(input) # "" THEN parseUrl(input)
        ELSE IF startsWith(input, "//") THEN parseUrl(base.scheme \o input)
        ELSE IF startsWith(input, "/")
             THEN [base EXCEPT !.path = PathOf(input),
                               !.query = QueryOf(input),
                               !.fragment = EncodedFragmentOf(input)]
        ELSE IF startsWith(input, "?")
             THEN [base EXCEPT !.query = QueryOf(input),
                               !.fragment = EncodedFragmentOf(input)]
        ELSE IF input = "" \/ startsWith(input, "#")
             THEN [base EXCEPT !.fragment = EncodedFragmentOf(input)]
        ELSE LET dir == SubSeq(base.path, 1,
                               LastIndexUpTo(base.path, "/", Len(base.path)))
             IN  [base EXCEPT !.path = dir \o PathOf(input),
                              !.query = QueryOf(input),
                              !.fragment = EncodedFragmentOf(input)]

\* URL.prototype.href
href(u) == u.scheme \o "//" \o u.host \o u.path \o u.query \o u.fragment

\* URL.prototype.origin
origin(u) == u.scheme \o "//" \o u.host

(***************************************************************************)
(* rewritePlaylistUrls(playlistText, baseUrl, referer): the rewritten text *)
(* or a thrown exception (new URL(baseUrl) is outside the per-line try).   *)
(***************************************************************************)
\* Variant: a directive or blank line is emitted trimmed.
rewriteLine_trimsDirectives(line, base, referer) ==
    LET trimmed == trim(line)
    IN  IF startsWith(trimmed, "#") \/ trimmed = "" THEN trimmed
        ELSE LET resolved == resolveUrl(trimmed, base)
             IN  IF resolved.ok
                 THEN "?url=" \o encodeURIComponent(href(resolved))
                      \o "&referer=" \o encodeURIComponent(referer)
                 ELSE line

\* rewriteLine with the referer appended as it is given, not encoded.
rewriteLine_rawReferer(line, base, referer) ==
    LET trimmed == trim(line)
    IN  IF startsWith(trimmed, "#") \/ trimmed = "" THEN line
        ELSE LET resolved == resolveUrl(trimmed, base)
             IN  IF resolved.ok
                 THEN "?url=" \o encodeURIComponent(href(resolved))
                      \o "&referer=" \o referer
                 ELSE line

\* rewriteLine that drops a line it cannot resolve.
rewriteLine_dropsUnresolved(line, base, referer) ==
    LET trimmed == trim(line)
    IN  IF startsWith(trimmed, "#") \/ trimmed = "" THEN line
        ELSE LET resolved == resolveUrl(trimmed, base)
             IN  IF resolved.ok
                 THEN "?url=" \o encodeURIComponent(href(resolved))
                      \o "&referer=" \o encodeURIComponent(referer)
                 ELSE ""

rewriteLine(line, base, referer) ==
    LET trimmed == trim(line)
    IN  IF startsWith(trimmed, "#") \/ trimmed = "" THEN line
        ELSE LET resolved == resolveUrl(trimmed, base)
             IN  IF resolved.ok
                 THEN "?url=" \o encodeURIComponent(href(resolved))
                      \o "&referer=" \o encodeURIComponent(referer)
                 ELSE line

rewritePlaylistUrls(playlistText, baseUrl, referer) ==
    LET base == parseUrl(baseUrl)
        lines == split(playlistText)
    IN  IF ~base.ok
        THEN [threw |-> TRUE, text |-> ""]
        ELSE [threw |-> FALSE,
              text |-> join([i \in 1..Len(lines) |->
                                rewriteLine(lines[i], base, referer)])]

(***************************************************************************)
(* Inputs.                                                                 *)
(***************************************************************************)
PlaylistUrls == {"https://h/a.m3u8", "https://h/b.m3u8"}
SegmentUrls == {"https://h/s.ts", "https://h/t.ts"}
Urls == PlaylistUrls \cup SegmentUrls

\* What the handler can store under a url: text for a playlist, bytes else.
Payloads(url) ==
    IF endsWith(url, ".m3u8")
    THEN {Str("#EXTM3U"), Str("")}
    ELSE {Buf("ab")}

\* Date.now() advances by one of these amounts (milliseconds): to the last
\* millisecond of a TTL and to the first one after it.
TimeSteps == {CACHE_TTL_M3U8, CACHE_TTL_M3U8 + 1,
              CACHE_TTL_SEGMENT, CACHE_TTL_SEGMENT + 1}
\* The amounts used while requests are in flight.
RequestTimeSteps == {CACHE_TTL_M3U8, CACHE_TTL_M3U8 + 1}

\* A query parameter: absent (c.req.query gives undefined) or a string.
Absent == [has |-> FALSE, val |-> ""]
Param(s) == [has |-> TRUE, val |-> s]
\* Variant: only an absent parameter is falsy.
ParamTruthy_emptyPasses(q) == q.has

\* JavaScript truthiness of `string | undefined`.
ParamTruthy(q) == q.has /\ q.val # ""

\* The url parameter of a request: absent, empty, a playlist, a segment, or
\* a string that is no absolute URL.
UrlParams == {Absent, Param(""), Param("https://h/a.m3u8"),
              Param("https://h/s.ts"), Param("a.m3u8")}
\* The referer parameter: absent, a URL, or a string that is no URL.
RefererParams == {Absent, Param("https://ref/")}
\* More referer parameters: empty, a string that is no URL, and one with a
\* line feed in it (?referer=a%0Ab).
MalformedRefererParams == {Param(""), Param("no url"), Param("a\nb")}
\* The urls requested while the referer varies.
RefererUrlParams == {Param("https://h/a.m3u8"), Param("https://h/s.ts")}

\* What the upstream can answer: a status and, for a 2xx, a body (for a
\* playlist: nothing, or a directive, a line that is no URI and a URI).
UpstreamStatuses == {200, 404}
UpstreamBodies(url) ==
    IF endsWith(url, ".m3u8")
    THEN {"", "#EXTM3U\nhttp:// b\nseg1.ts"}
    ELSE {"", "ab"}

NoOp == [op |-> "none", url |-> "", data |-> null, ret |-> null, by |-> 0]

\* One call of rewritePlaylistUrls on its own: its arguments (playlistText
\* put together from `pieces` pieces), and its outcome once it has returned
\* or thrown.
NoRewrite == [playlistText |-> "", pieces |-> 0, baseUrl |-> "",
              referer |-> "", called |-> FALSE, threw |-> FALSE, text |-> ""]

\* What a playlist text is put together from: a line feed, white space, a
\* directive, a relative URI, an absolute URI and a string that is no URI.
PlaylistPieces == {"\n", " ", "\r", "#EXT", "s.ts", "https://o/y", "http:// b"}
\* The playlist's own url (the last one is no absolute URL) and the referer.
RewriteBases == {"https://h/p/a.m3u8", "a.m3u8"}
RewriteReferers == {"https://r/"}

NoResponse == [status |-> 0, body |-> null, contentType |-> "",
               cacheControl |-> "", allowOrigin |-> ""]
NoHeaders == [referer |-> Absent, origin |-> Absent]

\* A request.  error is the message of the exception the handler caught;
\* lookups, fetches, rewrites and sets count the calls of getCached, fetch,
\* rewritePlaylistUrls and setCache of the request; concurrent tells that
\* another request for the same url was in flight when this one missed;
\* steps lists, in the order the handler's statements run, the states of the
\* request: RECEIVED (handler entered), CACHE_LOOKUP (getCached called),
\* CACHE_HIT / CACHE_MISS (its result tested), FETCHING (fetch issued),
\* REWRITING (rewritePlaylistUrls called), CACHE_STORE (setCache called),
\* RESPONDING (c.text / c.body called), DONE (handler returned).
IdleReq == [pc |-> "idle", url |-> Absent, refererParam |-> Absent,
            referer |-> "", isM3U8 |-> FALSE,
            headers |-> NoHeaders, upstream |-> 0, resp |-> NoResponse,
            error |-> "", lookups |-> 0, fetches |-> 0, rewrites |-> 0,
            sets |-> 0, concurrent |-> FALSE, steps |-> <<>>]

Reqs == 1..NumReqs

\* The referer of a request: its parameter, or the fallback when the
\* parameter is absent or empty.
EffectiveReferer(refererParam) ==
    IF ParamTruthy(refererParam) THEN refererParam.val
    ELSE "https://megacloud.club/"

\* History of the calls of setCache: the key, the payload and the time of
\* the most recent setCache(key, ...) of every key whose entry no later call
\* has taken out of the Map.  History gives its value after a call
\* op(url, data) at time t that left the Map as m2.
History(w, m2, op, url, data, t) ==
    LET kept == {x \in w : MapHas(m2, x.key) /\ ~(op = "set" /\ x.key = url)}
    IN  IF op = "set"
        THEN kept \cup {[key |-> url, data |-> data, at |-> t]}
        ELSE kept

(***************************************************************************)
(* The cache-aside helper (AniwatchAPICache.getOrSet) with the cache       *)
(* enabled (ANIWATCH_API_REDIS_CONN_URL is set), its callers and the Redis *)
(* store it talks to.                                                      *)
(***************************************************************************)
CHAT_CACHE_TTL == 10
UNREAD_CACHE_TTL == 15
PROFILE_TTL_SECONDS == 5 * 60
DEFAULT_CACHE_EXPIRY_SECONDS == 300

\* The values a dataGetter returns: a number, a boolean, a string, null, or
\* an object (a page of `num` chat messages, a profile).
JNum(n) == [kind |-> "number", num |-> n, str |-> ""]
JBool(b) == [kind |-> "boolean", num |-> IF b THEN 1 ELSE 0, str |-> ""]
JStr(str) == [kind |-> "string", num |-> 0, str |-> str]
JNull == [kind |-> "null", num |-> 0, str |-> ""]
JObj(n) == [kind |-> "object", num |-> n, str |-> ""]

\* !v
Falsy(v) ==
    \/ v.kind = "null"
    \/ v.kind = "number" /\ v.num = 0
    \/ v.kind = "boolean" /\ v.num = 0
    \/ v.kind = "string" /\ v.str = ""

\* JSON.stringify
JSONstringify(v) ==
    CASE v.kind = "number" -> numberToString(v.num)
      [] v.kind = "boolean" -> (IF v.num = 1 THEN "true" ELSE "false")
      [] v.kind = "string" -> "\"" \o v.str \o "\""
      [] v.kind = "null" -> "null"
      [] v.kind = "object" ->
            "{\"messages\":" \o numberToString(v.num) \o "}"

\* JSON.parse, for the texts JSON.stringify gives.
JSONparse(text) ==
    IF text = "null" THEN JNull
    ELSE IF text = "true" THEN JBool(TRUE)
    ELSE IF text = "false" THEN JBool(FALSE)
    ELSE IF startsWith(text, "\"") THEN JStr(SubSeq(text, 2, Len(text) - 1))
    ELSE IF startsWith(text, "{")
    THEN JObj(DecimalValue(SubSeq(text, 13, Len(text) - 1)))
    ELSE JNum(DecimalValue(text))

\* The keys of the callers: makeChatMessagesCacheKey(50),
\* makeUnreadCountCacheKey("u1"), profileCacheKey("u1") and the key of a
\* caller whose dataGetter returns a boolean or a string.
AsideKeys == {"chat:messages:limit:50", "chat:unread:u1", "user:profile:u1",
              "flag"}

\* The expirySeconds each caller passes.
ExpirySeconds(key) ==
    IF startsWith(key, "chat:messages:") THEN CHAT_CACHE_TTL
    ELSE IF startsWith(key, "chat:unread:") THEN UNREAD_CACHE_TTL
    ELSE IF startsWith(key, "user:profile:") THEN PROFILE_TTL_SECONDS
    ELSE DEFAULT_CACHE_EXPIRY_SECONDS

\* What the dataGetter of a key can return when the collection chatMessages
\* holds n documents, none of them seen by u1, and users holds no document
\* of u1: the page of the n messages, the count n, toPublicProfile(null).
dataGetter(key, n) ==
    IF startsWith(key, "chat:messages:") THEN {JObj(n)}
    ELSE IF startsWith(key, "chat:unread:") THEN {JNum(n)}
    ELSE IF startsWith(key, "user:profile:") THEN {JNull}
    ELSE {JBool(FALSE), JStr(""), JStr("a")}

\* The Redis store: under every key nothing, or a text that expires.
NoEntry == [has |-> FALSE, val |-> "", exp |-> 0]
\* GET key
redisGet(store, key, t) ==
    IF store[key].has /\ t < store[key].exp THEN Param(store[key].val)
    ELSE Absent
\* SET key val EX seconds
redisSet(store, key, val, seconds, t) ==
    [store EXCEPT ![key] = [has |-> TRUE, val |-> val, exp |-> t + seconds]]
\* SCAN 0 MATCH prefix* COUNT 100 (the store holds fewer than 100 keys: one
\* round of the scan returns all of them with the cursor "0")
redisScan(store, prefix, t) ==
    {k \in DOMAIN store : redisGet(store, k, t).has /\ startsWith(k, prefix)}
\* DEL keys
redisDel(store, keys) ==
    [k \in DOMAIN store |-> IF k \in keys THEN NoEntry ELSE store[k]]
\* Redis drops the entries that have expired at time t.
redisExpire(store, t) ==
    [k \in DOMAIN store |->
        IF redisGet(store, k, t).has THEN store[k] ELSE NoEntry]

\* One call of getOrSet: cachedData is what client.get resolved with, data
\* the local `data`, getterCalls and sets count the calls of dataGetter and
\* client.set, result is what the call returned; mustSee is the number of
\* the last chat message whose POST had returned when the call began.
IdleCall == [pc |-> "idle", key |-> "", cachedData |-> Absent,
             data |-> JNull, getterCalls |-> 0, sets |-> 0,
             result |-> JNull, mustSee |-> 0]
\* One POST /messages: inserted is the number of its message in the
\* collection, keys what its scan found.
IdlePost == [pc |-> "idle", inserted |-> 0, keys |-> {}]

Calls == 1..NumCalls
Posts == 1..NumPosts
\* The clock of the store advances by one of these (seconds).
AsideTimeSteps == {CHAT_CACHE_TTL - 1, CHAT_CACHE_TTL, UNREAD_CACHE_TTL}

(***************************************************************************)
(* The middlewares of auth.ts.  verifyIdToken and isFirebaseConfigured are *)
(* imported from config/firebase.js: what they return is an input here.    *)
(***************************************************************************)
\* String.prototype.toLowerCase, for ASCII.
RECURSIVE toLowerCase(_)
toLowerCase(s) ==
    IF Len(s) = 0 THEN ""
    ELSE LET i == IndexFrom("ABCDEFGHIJKLMNOPQRSTUVWXYZ", Char(s, 1), 1)
         IN  (IF i = 0 THEN Char(s, 1)
              ELSE Char("abcdefghijklmnopqrstuvwxyz", i))
             \o toLowerCase(SubSeq(s, 2, Len(s)))

\* String.prototype.split(" ")
RECURSIVE splitOnSpace(_)
splitOnSpace(s) ==
    LET i == IndexFrom(s, " ", 1)
    IN  IF i = 0 THEN <<s>>
        ELSE <<SubSeq(s, 1, i - 1)>> \o splitOnSpace(SubSeq(s, i + 1, Len(s)))

\* Variant: the scheme of the header is not looked at.
extractBearerToken_anyScheme(authHeader) ==
    IF ~ParamTruthy(authHeader) THEN Absent
    ELSE LET parts == splitOnSpace(authHeader.val)
         IN  IF Len(parts) # 2 THEN Absent
             ELSE Param(parts[2])

\* extractBearerToken: the token (Param) or null (Absent).
extractBearerToken(authHeader) ==
    IF ~ParamTruthy(authHeader) THEN Absent
    ELSE LET parts == splitOnSpace(authHeader.val)
         IN  IF Len(parts) # 2 \/ toLowerCase(parts[1]) # "bearer" THEN Absent
             ELSE Param(parts[2])

\* The Authorization header of a request: none, empty, a bearer token in
\* three spellings, other schemes, a scheme alone, an empty token, two
\* blanks.
AuthHeaders == {Absent, Param(""), Param("Bearer ta"), Param("bearer tb"),
                Param("BEARER tg"), Param("Bearer tx"), Param("Bearer te"),
                Param("Basic ta"), Param("ta"), Param("Bearer"),
                Param("Bearer "), Param("Bearer  ta")}
\* The uid a client writes in the body or the query of its request.
ClientUids == {Absent, Param("a"), Param("b")}

\* What verifyIdToken(token) resolves with: the decoded token (uid), or
\* null; "rejects" when its promise rejects.  ta, tb and tg are the tokens
\* of the users a, b and g; tx is no valid token; the verification of te
\* fails with an exception.
verifyIdToken(token) ==
    IF token = "ta" THEN {"a"}
    ELSE IF token = "tb" THEN {"b"}
    ELSE IF token = "tg" THEN {"g"}
    ELSE IF token = "te" THEN {"rejects"}
    ELSE {"null"}

\* What users.findOne({uid}) resolves with: the value of isAdmin of the
\* document ("true" for the boolean true, "other" for anything else), or
\* "none" without a document (g has none); "rejects" when the database
\* fails.
findOneUser(uid) ==
    (IF uid = "a" THEN {"true"}
     ELSE IF uid = "b" THEN {"other"}
     ELSE {"none"}) \cup {"rejects"}

\* A request in a middleware.  configured is what isFirebaseConfigured()
\* returned; ctx is what the middleware has put in the context with c.set;
\* nextCalled tells that next() was called, which runs the handler.
NoCtx == [uid |-> Absent, isAdmin |-> Absent]
IdleAuth == [pc |-> "idle", middleware |-> "", authHeader |-> Absent,
             clientUid |-> Absent, configured |-> FALSE, token |-> Absent,
             decoded |-> Absent, ctx |-> NoCtx, nextCalled |-> FALSE,
             status |-> 0]
Auths == 1..NumAuths

\* rewritePlaylistUrls on every input the handler can pass to it, computed
\* once.
Rewritten ==
    [playlistText \in UNION {UpstreamBodies(q.val) : q \in UrlParams},
     baseUrl \in {q.val : q \in UrlParams},
     referer \in {EffectiveReferer(q) :
                       q \in RefererParams \cup MalformedRefererParams}
        |-> rewritePlaylistUrls(playlistText, baseUrl, referer)]

Init ==
    /\ cache = <<>>
    /\ now = 0
    /\ ticks = 0
    /\ lastOp = NoOp
    /\ reqs = [r \in Reqs |-> IdleReq]
    /\ written = {}
    /\ rewriteCall = NoRewrite
    /\ redis = [k \in AsideKeys |-> NoEntry]
    /\ messages = 0
    /\ clock = 0
    /\ calls = [p \in Calls |-> IdleCall]
    /\ posts = [q \in Posts |-> IdlePost]
    /\ auths = [a \in Auths |-> IdleAuth]

\* The clock advances by one of `steps` (Date.now() is read as
\* non-decreasing).  The code uses the clock only in differences to the
\* timestamps of held entries, so its advance is modelled from the first
\* stored entry on.
Tick(steps) ==
    /\ ticks < MaxTicks
    /\ Len(cache) > 0
    /\ \E d \in steps : now' = now + d
    /\ ticks' = ticks + 1
    /\ lastOp' = NoOp
    /\ UNCHANGED <<cache, reqs, written, rewriteCall, asideVars, auths>>

(***************************************************************************)
(* The store on its own: any sequence of getCached and setCache calls.     *)
(* The handler can issue every such sequence with non-empty keys: a        *)
(* request that missed may stay in its fetch for any time before its       *)
(* setCache, and a request whose upstream answers non-2xx performs a       *)
(* getCached alone.                                                        *)
(***************************************************************************)
StoreGet ==
    \E url \in Urls :
        LET g == getCached(cache, url, now)
        IN  /\ cache' = g.cache
            /\ written' = History(written, g.cache, "get", url,
                                   null, now)
            /\ lastOp' = [op |-> "get", url |-> url, data |-> null,
                          ret |-> g.ret, by |-> 0]
            /\ UNCHANGED <<now, ticks, reqs, rewriteCall, asideVars, auths>>

StoreSet ==
    \E url \in Urls : \E data \in Payloads(url) :
        /\ cache' = setCache(cache, url, data, now)
        /\ written' = History(written, cache', "set", url, data, now)
        /\ lastOp' = [op |-> "set", url |-> url, data |-> data,
                      ret |-> null, by |-> 0]
        /\ UNCHANGED <<now, ticks, reqs, rewriteCall, asideVars, auths>>

NextStore == Tick(TimeSteps) \/ StoreGet \/ StoreSet

SpecStore == Init /\ [][NextStore]_vars

(***************************************************************************)
(* rewritePlaylistUrls on its own: a playlist text is put together piece   *)
(* by piece, then the function is called once on it.                       *)
(***************************************************************************)
ExtendPlaylist ==
    /\ ~rewriteCall.called
    /\ rewriteCall.pieces < MaxPieces
    /\ \E piece \in PlaylistPieces :
          rewriteCall' = [rewriteCall EXCEPT
                             !.playlistText = @ \o piece,
                             !.pieces = @ + 1]
    /\ UNCHANGED <<cache, now, ticks, lastOp, reqs, written, asideVars, auths>>

CallRewrite ==
    /\ ~rewriteCall.called
    /\ \E baseUrl \in RewriteBases : \E referer \in RewriteReferers :
          \E result \in {rewritePlaylistUrls(rewriteCall.playlistText,
                                              baseUrl, referer)} :
              rewriteCall' = [rewriteCall EXCEPT
                                 !.baseUrl = baseUrl,
                                 !.referer = referer,
                                 !.called = TRUE,
                                 !.threw = result.threw,
                                 !.text = result.text]
    /\ UNCHANGED <<cache, now, ticks, lastOp, reqs, written, asideVars, auths>>

NextRewrite == ExtendPlaylist \/ CallRewrite

SpecRewrite == Init /\ [][NextRewrite]_vars

(***************************************************************************)
(* Responses of the handler.                                               *)
(***************************************************************************)
\* c.text(text, status)
cText(text, status) ==
    [status |-> status, body |-> Str(text),
     contentType |-> "text/plain; charset=UTF-8",
     cacheControl |-> "", allowOrigin |-> ""]

\* Variant: every 200 response gets the playlist's Cache-Control.
cBody_playlistPolicyForAll(data, contentType, cacheControl) ==
    [status |-> 200, body |-> data, contentType |-> contentType,
     cacheControl |-> "public, max-age=600", allowOrigin |-> "*"]

\* c.body(data, {status: 200, headers: {...}})
cBody(data, contentType, cacheControl) ==
    [status |-> 200, body |-> data, contentType |-> contentType,
     cacheControl |-> cacheControl, allowOrigin |-> "*"]

\* The Referer and Origin headers fetchWithCustomReferer sends.
fetchWithCustomReferer(url, refererUrl) ==
    IF refererUrl # ""
    THEN [referer |-> Param(refererUrl),
          origin |-> IF parseUrl(refererUrl).ok
                     THEN Param(origin(parseUrl(refererUrl)))
                     ELSE Absent]
    ELSE NoHeaders

\* fetch(url) rejects at once when url is no absolute URL.
FetchCanReach(url) == parseUrl(url).ok

\* A header value fetch accepts: with the white space at its ends removed it
\* holds no line feed and no carriage return.
ValidHeaderValue(value) ==
    LET v == trim(value)
    IN  \A i \in 1..Len(v) : Char(v, i) \notin {"\n", "\r"}

\* fetch(url, {headers}) sends a request: url is an absolute URL and every
\* header has a valid value; otherwise it rejects at once.
FetchCanSend(url, headers) ==
    /\ FetchCanReach(url)
    /\ headers.referer.has => ValidHeaderValue(headers.referer.val)

\* Variant: every status from 200 on counts as a success.
ResponseOk_noUpperBound(status) == status >= 200

\* Response.ok
ResponseOk(status) == status >= 200 /\ status <= 299

\* Messages of the exceptions a fetch or a body read can raise.
FetchErrors(url, headers) ==
    IF FetchCanSend(url, headers) THEN {"fetch failed"}
    ELSE IF FetchCanReach(url) THEN {"Headers.append: invalid header value"}
    ELSE {"Failed to parse URL from " \o url}
BodyErrors == {"terminated"}

(***************************************************************************)
(* GET "/": from the start of the handler to its first await (or to its    *)
(* response when it needs none).                                           *)
(***************************************************************************)
ReceiveFrom(r, urlParams, refererParams) ==
    /\ reqs[r].pc = "idle"
    \* the slots are taken in order (they are interchangeable)
    /\ \A o \in Reqs : o < r => reqs[o].pc # "idle"
    /\ \E url \in urlParams : \E refererParam \in refererParams :
        LET referer == EffectiveReferer(refererParam)
            fresh == [IdleReq EXCEPT !.url = url,
                                     !.refererParam = refererParam,
                                     !.referer = referer]
        IN  IF ~ParamTruthy(url)
            THEN /\ reqs' = [reqs EXCEPT ![r] =
                        [fresh EXCEPT !.pc = "done",
                                      !.steps = <<"RECEIVED", "RESPONDING",
                                                  "DONE">>,
                                      !.resp = cText("URL required", 400)]]
                 /\ UNCHANGED <<lastOp, rewriteCall, asideVars, auths>>
                 /\ UNCHANGED <<cache, now, ticks, written>>
            ELSE \E g \in {getCached(cache, url.val, now)} :
                 LET isM3U8 == endsWith(url.val, ".m3u8")
                     cached == g.ret
                     looked == [fresh EXCEPT !.isM3U8 = isM3U8,
                                             !.lookups = 1]
                 IN  /\ cache' = g.cache
                     /\ written' = History(written, g.cache, "get",
                                            url.val, null, now)
                     /\ UNCHANGED <<lastOp, rewriteCall, asideVars, auths>>
                     /\ UNCHANGED <<now, ticks>>
                     /\ IF Truthy(cached)
                        THEN LET contentType ==
                                     IF isM3U8
                                     THEN "application/vnd.apple.mpegurl"
                                     ELSE "video/mp2t"
                                 cacheControl ==
                                     IF isM3U8 THEN "public, max-age=600"
                                     ELSE "public, max-age=31536000"
                             IN  reqs' = [reqs EXCEPT ![r] =
                                    [looked EXCEPT
                                        !.pc = "done",
                                        !.steps = <<"RECEIVED",
                                                    "CACHE_LOOKUP",
                                                    "CACHE_HIT",
                                                    "RESPONDING", "DONE">>,
                                        !.resp = cBody(cached, contentType,
                                                       cacheControl)]]
                        ELSE reqs' = [reqs EXCEPT ![r] =
                                [looked EXCEPT
                                    !.pc = "fetching",
                                    !.steps = <<"RECEIVED", "CACHE_LOOKUP",
                                                "CACHE_MISS", "FETCHING">>,
                                    !.headers =
                                        fetchWithCustomReferer(url.val,
                                                               referer),
                                    !.fetches = 1,
                                    !.concurrent =
                                        \E o \in Reqs \ {r} :
                                            /\ reqs[o].pc \in
                                                   {"fetching", "reading"}
                                            /\ reqs[o].url = url]]

\* A request of the handler's usual inputs arrives.
Receive(r) == ReceiveFrom(r, UrlParams, RefererParams)

\* A request for a playlist or a segment arrives, with a referer parameter
\* of any kind.
ReceiveReferer(r) ==
    ReceiveFrom(r, RefererUrlParams, RefererParams \cup MalformedRefererParams)

(***************************************************************************)
(* The fetch settles: it rejects, or it resolves with a status.  A non-2xx *)
(* status is answered at once; a 2xx goes on to read the body.             *)
(***************************************************************************)
\* Variant: a rejected fetch escapes the handler, which sends nothing.
FetchRejects_unhandled(r) ==
    /\ reqs[r].pc = "fetching"
    /\ \E msg \in FetchErrors(reqs[r].url.val, reqs[r].headers) :
        reqs' = [reqs EXCEPT ![r].pc = "failed", ![r].error = msg]
    /\ UNCHANGED <<lastOp, rewriteCall, asideVars, auths>>
    /\ UNCHANGED <<cache, now, ticks, written>>

FetchRejects(r) ==
    /\ reqs[r].pc = "fetching"
    /\ \E msg \in FetchErrors(reqs[r].url.val, reqs[r].headers) :
        reqs' = [reqs EXCEPT ![r].pc = "done",
                             ![r].error = msg,
                             ![r].steps = @ \o <<"RESPONDING", "DONE">>,
                             ![r].resp = cText("Proxy Error: " \o msg, 500)]
    /\ UNCHANGED <<lastOp, rewriteCall, asideVars, auths>>
    /\ UNCHANGED <<cache, now, ticks, written>>

\* Variant: a 2xx answer is stored at once, before its body is read.
FetchResolves_storesEarly(r) ==
    /\ reqs[r].pc = "fetching"
    /\ FetchCanSend(reqs[r].url.val, reqs[r].headers)
    /\ \E status \in UpstreamStatuses :
        IF ~ResponseOk(status)
        THEN /\ reqs' = [reqs EXCEPT
                    ![r].pc = "done",
                    ![r].upstream = status,
                    ![r].steps = @ \o <<"RESPONDING", "DONE">>,
                    ![r].resp = cText("Error fetching remote resource: "
                                      \o numberToString(status), status)]
             /\ UNCHANGED <<cache, written>>
        ELSE /\ reqs' = [reqs EXCEPT ![r].pc = "reading",
                                      ![r].upstream = status,
                                      ![r].sets = 1,
                                      ![r].steps = @ \o <<"CACHE_STORE">>]
             /\ cache' = setCache(cache, reqs[r].url.val, Buf(""), now)
             /\ written' = History(written, cache', "set",
                                    reqs[r].url.val, Buf(""), now)
    /\ UNCHANGED <<lastOp, rewriteCall, now, ticks, asideVars, auths>>

FetchResolves(r) ==
    /\ reqs[r].pc = "fetching"
    /\ FetchCanSend(reqs[r].url.val, reqs[r].headers)
    /\ \E status \in UpstreamStatuses :
        IF ~ResponseOk(status)
        THEN reqs' = [reqs EXCEPT
                ![r].pc = "done",
                ![r].upstream = status,
                ![r].steps = @ \o <<"RESPONDING", "DONE">>,
                ![r].resp = cText("Error fetching remote resource: "
                                  \o numberToString(status), status)]
        ELSE reqs' = [reqs EXCEPT ![r].pc = "reading",
                                  ![r].upstream = status]
    /\ UNCHANGED <<lastOp, rewriteCall, asideVars, auths>>
    /\ UNCHANGED <<cache, now, ticks, written>>

(***************************************************************************)
(* The body read settles: it rejects, or the body is there, is rewritten   *)
(* (playlist) or wrapped in a Buffer (segment), stored and sent.           *)
(***************************************************************************)
\* Variant: an entry is stored before the body has been read.
BodyRejects_storesFirst(r) ==
    /\ reqs[r].pc = "reading"
    /\ \E msg \in BodyErrors :
        reqs' = [reqs EXCEPT ![r].pc = "done",
                             ![r].error = msg,
                             ![r].resp = cText("Proxy Error: " \o msg, 500)]
    /\ cache' = setCache(cache, reqs[r].url.val,
                         IF reqs[r].isM3U8 THEN Str("") ELSE Buf(""), now)
    /\ UNCHANGED <<now, ticks, lastOp, written, rewriteCall, asideVars, auths>>

BodyRejects(r) ==
    /\ reqs[r].pc = "reading"
    /\ \E msg \in BodyErrors :
        reqs' = [reqs EXCEPT ![r].pc = "done",
                             ![r].error = msg,
                             ![r].steps = @ \o <<"RESPONDING", "DONE">>,
                             ![r].resp = cText("Proxy Error: " \o msg, 500)]
    /\ UNCHANGED <<lastOp, rewriteCall, asideVars, auths>>
    /\ UNCHANGED <<cache, now, ticks, written>>

BodyArrives(r) ==
    /\ reqs[r].pc = "reading"
    /\ \E body \in UpstreamBodies(reqs[r].url.val) :
        LET url == reqs[r].url.val
        IN  IF reqs[r].isM3U8
            THEN \E rw \in {Rewritten[body, url, reqs[r].referer]} :
                 \E modifiedPlaylist \in {Str(rw.text)} :
                     IF rw.threw
                     THEN /\ reqs' = [reqs EXCEPT
                                ![r].pc = "done",
                                ![r].rewrites = 1,
                                ![r].steps = @ \o <<"REWRITING",
                                                     "RESPONDING", "DONE">>,
                                ![r].error = "Invalid URL",
                                ![r].resp = cText("Proxy Error: Invalid URL",
                                                  500)]
                          /\ UNCHANGED <<lastOp, rewriteCall, asideVars, auths>>
                          /\ UNCHANGED <<cache, written>>
                     ELSE /\ cache' = setCache(cache, url, modifiedPlaylist,
                                               now)
                          /\ written' = History(written, cache',
                                                 "set", url,
                                                 modifiedPlaylist, now)
                          /\ UNCHANGED <<lastOp, rewriteCall, asideVars, auths>>
                          /\ reqs' = [reqs EXCEPT
                                ![r].pc = "done",
                                ![r].rewrites = 1,
                                ![r].sets = 1,
                                ![r].steps = @ \o <<"REWRITING",
                                                     "CACHE_STORE",
                                                     "RESPONDING", "DONE">>,
                                ![r].resp =
                                    cBody(modifiedPlaylist,
                                          "application/vnd.apple.mpegurl",
                                          "public, max-age=600")]
            ELSE LET buffer == Buf(body)
                 IN  /\ cache' = setCache(cache, url, buffer, now)
                     /\ written' = History(written, cache', "set",
                                            url, buffer, now)
                     /\ UNCHANGED <<lastOp, rewriteCall, asideVars, auths>>
                     /\ reqs' = [reqs EXCEPT
                            ![r].pc = "done",
                            ![r].sets = 1,
                            ![r].steps = @ \o <<"CACHE_STORE", "RESPONDING",
                                                 "DONE">>,
                            ![r].resp = cBody(buffer, "video/mp2t",
                                              "public, max-age=31536000")]
    /\ UNCHANGED <<now, ticks>>

Next ==
    \/ Tick(RequestTimeSteps)
    \/ \E r \in Reqs : Receive(r)
    \/ \E r \in Reqs : FetchRejects(r)
    \/ \E r \in Reqs : FetchResolves(r)
    \/ \E r \in Reqs : BodyRejects(r)
    \/ \E r \in Reqs : BodyArrives(r)

Spec == Init /\ [][Next]_vars

\* The handler under referer parameters of every kind.
NextReferer ==
    \/ \E r \in Reqs : ReceiveReferer(r)
    \/ \E r \in Reqs : FetchRejects(r)
    \/ \E r \in Reqs : FetchResolves(r)
    \/ \E r \in Reqs : BodyRejects(r)
    \/ \E r \in Reqs : BodyArrives(r)

SpecReferer == Init /\ [][NextReferer]_vars

\* Some request awaits a promise: its fetch or the read of its body.
Pending == \E r \in Reqs : reqs[r].pc \in {"fetching", "reading"}

\* A promise the handler awaits settles: the request leaves its await
\* (FetchRejects, FetchResolves, BodyRejects and BodyArrives are the only
\* steps of a request that waits).
Settles ==
    \E r \in Reqs :
        /\ reqs[r].pc \in {"fetching", "reading"}
        /\ reqs'[r].pc # reqs[r].pc

\* The handler when awaited promises do not stay pending for ever: weak
\* fairness of Settles, written out with Pending for ENABLED <<Settles>>_vars
\* (a pending fetch or body read can always reject).
SpecFair == Spec /\ ([]<>~Pending \/ []<><<Settles>>_vars)

(***************************************************************************)
(* getOrSet, one action per synchronous segment; and POST /messages from   *)
(* insertOne on (chat.ts 142-156) with invalidateChatMessagesCache.        *)
(***************************************************************************)
proxyVars == <<cache, now, ticks, lastOp, reqs, written, rewriteCall>>

\* The number of the last message whose POST has returned.
Acknowledged ==
    LET done == {posts[q].inserted : q \in {x \in Posts : posts[x].pc = "done"}}
    IN  IF done = {} THEN 0
        ELSE CHOOSE n \in done : \A m \in done : m <= n

\* Lines 59-64 and 73: client.get has resolved; the text is parsed; a truthy
\* value is returned, otherwise the dataGetter is called.
GetOrSetGets(p) ==
    /\ calls[p].pc = "idle"
    \* the slots are taken in order (they are interchangeable)
    /\ \A o \in Calls : o < p => calls[o].pc # "idle"
    /\ \E key \in AsideKeys :
        LET got == redisGet(redis, key, clock)
            \* (await this.client?.get?.(key)) || null
            cachedData == IF got.has /\ got.val # "" THEN got ELSE Absent
            \* JSON.parse(String(cachedData))
            data == JSONparse(IF cachedData.has THEN cachedData.val
                              ELSE "null")
            begun == [IdleCall EXCEPT !.key = key,
                                      !.cachedData = cachedData,
                                      !.data = data,
                                      !.mustSee = Acknowledged]
        IN  calls' = [calls EXCEPT ![p] =
                IF Falsy(data)
                THEN [begun EXCEPT !.pc = "getter"]
                ELSE [begun EXCEPT !.pc = "done", !.result = data]]
    /\ UNCHANGED <<redis, messages, clock, posts>>
    /\ UNCHANGED <<proxyVars, auths>>

\* Line 65: the dataGetter has read the database and resolved.
DataGetterResolves(p) ==
    /\ calls[p].pc = "getter"
    /\ \E data \in dataGetter(calls[p].key, messages) :
          calls' = [calls EXCEPT ![p].pc = "setting",
                                 ![p].data = data,
                                 ![p].getterCalls = @ + 1]
    /\ UNCHANGED <<redis, messages, clock, posts>>
    /\ UNCHANGED <<proxyVars, auths>>

\* Lines 66-73: client.set has stored the text of data; data is returned.
GetOrSetSets(p) ==
    /\ calls[p].pc = "setting"
    /\ redis' = redisSet(redis, calls[p].key, JSONstringify(calls[p].data),
                         ExpirySeconds(calls[p].key), clock)
    /\ calls' = [calls EXCEPT ![p].pc = "done",
                              ![p].sets = @ + 1,
                              ![p].result = calls[p].data]
    /\ UNCHANGED <<messages, clock, posts>>
    /\ UNCHANGED <<proxyVars, auths>>

\* chat.ts 143: insertOne has stored the message.
PostInserts(q) ==
    /\ posts[q].pc = "idle"
    /\ \A o \in Posts : o < q => posts[o].pc # "idle"
    /\ messages' = messages + 1
    /\ posts' = [posts EXCEPT ![q].pc = "scanning",
                              ![q].inserted = messages + 1]
    /\ UNCHANGED <<redis, clock, calls>>
    /\ UNCHANGED <<proxyVars, auths>>

\* chatCache.ts 243-253: the scan has returned the keys chat:messages:*;
\* with no key there is nothing to delete and the POST returns success.
PostScans(q) ==
    /\ posts[q].pc = "scanning"
    /\ LET keys == redisScan(redis, "chat:messages:", clock)
       IN  posts' = [posts EXCEPT
                        ![q].pc = IF keys = {} THEN "done" ELSE "deleting",
                        ![q].keys = keys]
    /\ UNCHANGED <<redis, messages, clock, calls>>
    /\ UNCHANGED <<proxyVars, auths>>

\* chatCache.ts 250 and chat.ts 151-156: the keys are deleted and the POST
\* returns success.
PostDeletes(q) ==
    /\ posts[q].pc = "deleting"
    /\ redis' = redisDel(redis, posts[q].keys)
    /\ posts' = [posts EXCEPT ![q].pc = "done"]
    /\ UNCHANGED <<messages, clock, calls>>
    /\ UNCHANGED <<proxyVars, auths>>

\* Time passes at the store; what has expired is gone.
Advance ==
    \E d \in AsideTimeSteps :
        /\ clock + d <= MaxAdvances * UNREAD_CACHE_TTL
        /\ clock' = clock + d
        /\ redis' = redisExpire(redis, clock + d)
        /\ UNCHANGED <<messages, calls, posts>>
        /\ UNCHANGED <<proxyVars, auths>>

NextAside ==
    \/ Advance
    \/ \E p \in Calls : GetOrSetGets(p)
    \/ \E p \in Calls : DataGetterResolves(p)
    \/ \E p \in Calls : GetOrSetSets(p)
    \/ \E q \in Posts : PostInserts(q)
    \/ \E q \in Posts : PostScans(q)
    \/ \E q \in Posts : PostDeletes(q)

SpecAside == Init /\ [][NextAside]_vars

(***************************************************************************)
(* authMiddleware and adminMiddleware, one action per synchronous segment. *)
(***************************************************************************)
\* auth.ts 41-44 and 64, 101-104 and 126: the token is extracted; without
\* Firebase or without a token the answer is 401.
MiddlewareReceives(a) ==
    /\ auths[a].pc = "idle"
    /\ \A o \in Auths : o < a => auths[o].pc # "idle"
    /\ \E middleware \in {"authMiddleware", "adminMiddleware"} :
       \E authHeader \in AuthHeaders : \E clientUid \in ClientUids :
       \E configured \in BOOLEAN :
          LET token == extractBearerToken(authHeader)
              begun == [IdleAuth EXCEPT !.middleware = middleware,
                                        !.authHeader = authHeader,
                                        !.clientUid = clientUid,
                                        !.configured = configured,
                                        !.token = token]
          IN  auths' = [auths EXCEPT ![a] =
                  IF configured /\ ParamTruthy(token)
                  THEN [begun EXCEPT !.pc = "verifying"]
                  ELSE [begun EXCEPT !.pc = "done", !.status = 401]]
    /\ UNCHANGED <<proxyVars, asideVars>>

\* auth.ts 45-48 and 105-106: verifyIdToken has settled.  A rejection is
\* not caught by the middleware: the framework answers 500.
VerifySettles(a) ==
    /\ auths[a].pc = "verifying"
    /\ \E decoded \in verifyIdToken(auths[a].token.val) :
          auths' = [auths EXCEPT ![a] =
              IF decoded = "rejects"
              THEN [@ EXCEPT !.pc = "done", !.status = 500]
              ELSE IF decoded = "null"
              THEN [@ EXCEPT !.pc = "done", !.status = 401]
              ELSE IF @.middleware = "authMiddleware"
              THEN [@ EXCEPT !.pc = "finding",
                             !.decoded = Param(decoded),
                             !.ctx.uid = Param(decoded)]
              ELSE [@ EXCEPT !.pc = "finding",
                             !.decoded = Param(decoded)]]
    /\ UNCHANGED <<proxyVars, asideVars>>

\* auth.ts 51-59 and 108-122: getDB and findOne have settled.
\* authMiddleware sets isAdmin and calls next() in every case;
\* adminMiddleware answers 403 without an admin document, 500 when the
\* database failed, and otherwise sets the context and calls next().
FindSettles(a) ==
    /\ auths[a].pc = "finding"
    /\ \E user \in findOneUser(auths[a].decoded.val) :
          auths' = [auths EXCEPT ![a] =
              IF @.middleware = "authMiddleware"
              THEN [@ EXCEPT !.pc = "done",
                             !.ctx.isAdmin =
                                 Param(IF user = "true" THEN "true"
                                       ELSE "false"),
                             !.nextCalled = TRUE,
                             !.status = 200]
              ELSE IF user = "rejects"
              THEN [@ EXCEPT !.pc = "done", !.status = 500]
              ELSE IF user # "true"
              THEN [@ EXCEPT !.pc = "done", !.status = 403]
              ELSE [@ EXCEPT !.pc = "done",
                             !.ctx = [uid |-> auths[a].decoded,
                                      isAdmin |-> Param("true")],
                             !.nextCalled = TRUE,
                             !.status = 200]]
    /\ UNCHANGED <<proxyVars, asideVars>>

NextAuth ==
    \/ \E a \in Auths : MiddlewareReceives(a)
    \/ \E a \in Auths : VerifySettles(a)
    \/ \E a \in Auths : FindSettles(a)

SpecAuth == Init /\ [][NextAuth]_vars

(***************************************************************************)
(* Properties of the store (checked under SpecStore).                      *)
(***************************************************************************)
\* The key and the entry the last store operation touched.
Removed(k) == MapHas(cache, k) /\ ~MapHas(cache', k)
IsExpired(k, e, t) ==
    t - e.timestamp > (IF endsWith(k, ".m3u8") THEN 600 * 1000
                       ELSE 3600 * 1000)

\* C1: in every reachable state the store holds at most N_max entries.
C1_AtMostLimitEntries == Len(cache) <= CacheLimit

\* C2: whenever a set removes an entry, that entry has the earliest
\* insertedAt among the entries held before the set, also after a held key
\* was overwritten.
C2_EvictsEarliestInsertedAt ==
    [][lastOp'.op = "set" =>
          \A i \in 1..Len(cache) :
              Removed(cache[i].key) =>
                  \A j \in 1..Len(cache) :
                      cache[i].value.timestamp <= cache[j].value.timestamp
      ]_vars

\* C3: when N_max distinct keys are held, all within their TTL, and one more
\* distinct key is inserted, get then returns absent for exactly the
\* first-inserted key and the stored payload for the N_max others.
C3_FirstInsertedKeyGone ==
    [][(/\ lastOp'.op = "set"
        /\ Len(cache) = CacheLimit
        /\ ~MapHas(cache, lastOp'.url)
        /\ \A i \in 1..Len(cache) :
              ~IsExpired(cache[i].key, cache[i].value, now))
       =>
       (/\ getCached(cache', cache[1].key, now').ret = null
        /\ \A i \in 2..Len(cache) :
              getCached(cache', cache[i].key, now').ret = cache[i].value.data
        /\ getCached(cache', lastOp'.url, now').ret = lastOp'.data)
      ]_vars

\* C4: for an entry held under key k, get(k) returns its payload if and only
\* if now - insertedAt <= ttl(k) (600 s for a key ending in ".m3u8", 3600 s
\* otherwise); otherwise it returns absent and the entry is gone afterwards.
C4_GetHonoursTtl ==
    [][(lastOp'.op = "get" /\ MapHas(cache, lastOp'.url)) =>
          LET k == lastOp'.url
              e == MapGet(cache, k)
          IN  IF IsExpired(k, e, now)
              THEN lastOp'.ret = null /\ ~MapHas(cache', k)
              ELSE lastOp'.ret = e.data /\ cache' = cache
      ]_vars

\* A get has just hit an entry whose age is exactly its TTL.
C4_Witness ==
    /\ lastOp.op = "get"
    /\ MapHas(cache, lastOp.url)
    /\ lastOp.ret = MapGet(cache, lastOp.url).data
    /\ now - MapGet(cache, lastOp.url).timestamp \in {600 * 1000, 3600 * 1000}
    /\ ~IsExpired(lastOp.url, MapGet(cache, lastOp.url), now)
    /\ IsExpired(lastOp.url, MapGet(cache, lastOp.url), now + 1)

\* C5: a set of a held key replaces its payload, resets its insertedAt and
\* removes no other entry, whatever the size of the store; a set removes an
\* entry only when its key is new and the store is at capacity.
C5_OverwriteRemovesNothing ==
    [][lastOp'.op = "set" =>
          LET k == lastOp'.url
          IN  /\ MapHas(cache, k) =>
                    /\ MapKeys(cache') = MapKeys(cache)
                    /\ MapGet(cache', k) =
                           [data |-> lastOp'.data, timestamp |-> now]
                    /\ \A j \in MapKeys(cache) \ {k} :
                           MapGet(cache', j) = MapGet(cache, j)
              /\ (\E j \in MapKeys(cache) : Removed(j)) =>
                    ~MapHas(cache, k) /\ Len(cache) >= CacheLimit
      ]_vars

\* C11: under every interleaving of the store's operations, a payload that
\* get(k) returns is the whole payload of the most recent set(k) whose entry
\* has not been removed since, and that entry is within its TTL: never the
\* payload of another key, of an evicted entry or of an expired one.
C11_GetReturnsLatestSet ==
    [][(lastOp'.op = "get" /\ lastOp'.ret # null) =>
          \E w \in written :
              /\ w.key = lastOp'.url
              /\ lastOp'.ret = w.data
              /\ ~IsExpired(w.key, [timestamp |-> w.at], now)
              /\ w \in written'
      ]_vars

\* A get has returned the payload of a key that was set, then set again
\* after another key had been inserted.
C11_Witness ==
    /\ lastOp.op = "get"
    /\ lastOp.ret # null
    /\ Len(cache) >= 2
    /\ lastOp.url = cache[1].key
    /\ cache[1].value.timestamp > cache[2].value.timestamp
    /\ \E w \in written : w.key = lastOp.url /\ w.data = lastOp.ret

\* C16: get(k) leaves the store as it is, except that it removes the entry
\* of k when that entry is expired: every other entry keeps its payload, its
\* insertedAt and its place in the eviction order, and an entry that is hit
\* keeps them too (no refresh: FIFO, not LRU).
C16_GetChangesOnlyExpiredOwnEntry ==
    [][lastOp'.op = "get" =>
          LET k == lastOp'.url
              others == SelectSeq(cache, LAMBDA e : e.key # k)
          IN  \/ cache' = cache
              \/ /\ cache' = others
                 /\ \E i \in 1..Len(cache) :
                       /\ cache[i].key = k
                       /\ IsExpired(k, cache[i].value, now)
                 /\ lastOp'.ret = null
      ]_vars

\* A get has hit the first of several entries, read later than every
\* entry was inserted; the entry is still the first and has its old time.
C16_Witness ==
    /\ lastOp.op = "get"
    /\ lastOp.ret # null
    /\ Len(cache) >= 2
    /\ cache[1].key = lastOp.url
    /\ cache[1].value.data = lastOp.ret
    /\ \A i \in 1..Len(cache) : cache[i].value.timestamp < now

\* C17: an entry leaves the store only (a) in a set made when the store is
\* at capacity, as the entry at the head of the insertion order, or (b) in a
\* get for its own key that finds it expired.  The passing of time removes
\* nothing, and a set below capacity removes nothing, so an expired entry
\* that is not read stays and counts toward the capacity.
C17_RemovedOnlyByEvictionOrOwnGet ==
    [][\A i \in 1..Len(cache) :
          Removed(cache[i].key) =>
              \/ /\ lastOp'.op = "set"
                 /\ Len(cache) >= CacheLimit
                 /\ i = 1
              \/ /\ lastOp'.op = "get"
                 /\ lastOp'.url = cache[i].key
                 /\ IsExpired(cache[i].key, cache[i].value, now)
      ]_vars

\* A set has just filled the store to its capacity while an entry of
\* another key, expired and not read, is still held.
C17_Witness ==
    /\ lastOp.op = "set"
    /\ Len(cache) = CacheLimit
    /\ \E i \in 1..Len(cache) :
          /\ cache[i].key # lastOp.url
          /\ IsExpired(cache[i].key, cache[i].value, now)

\* C15: after set(k, p), every get(k) made within ttl(k) with no set in
\* between returns p and leaves the store as it was, however often it is
\* repeated; and no get, of any key, ends this (the set of k stays the
\* latest one on record while k is within its TTL).
C15_RepeatedGetSamePayload ==
    [][lastOp'.op = "get" =>
          \A w \in written :
              ~IsExpired(w.key, [timestamp |-> w.at], now) =>
                  /\ w \in written'
                  /\ w.key = lastOp'.url =>
                        /\ lastOp'.ret = w.data
                        /\ cache' = cache
      ]_vars

\* A get has returned the empty playlist that was set for its key, in the
\* last millisecond of the key's TTL.
C15_Witness ==
    /\ lastOp.op = "get"
    /\ lastOp.ret = Str("")
    /\ \E w \in written :
          /\ w.key = lastOp.url
          /\ w.data = lastOp.ret
          /\ now - w.at = 600 * 1000

(***************************************************************************)
(* Properties of rewritePlaylistUrls (checked under SpecRewrite).          *)
(***************************************************************************)
\* C20: the rewritten text has as many lines (pieces between line feeds) as
\* the playlist text, and at every position where the input line, trimmed,
\* is empty or begins with "#", the output line is the input line character
\* for character, its surrounding white space included; at every other
\* position it is the input line or a "?url=" reference.
C20_SameLinesDirectivesUntouched ==
    (rewriteCall.called /\ ~rewriteCall.threw) =>
        LET input == split(rewriteCall.playlistText)
            output == split(rewriteCall.text)
        IN  /\ Len(output) = Len(input)
            /\ \A i \in 1..Len(input) :
                  LET t == trim(input[i])
                  IN  IF t = "" \/ SubSeq(t, 1, 1) = "#"
                      THEN output[i] = input[i]
                      ELSE \/ output[i] = input[i]
                           \/ SubSeq(output[i], 1, 5) = "?url="

\* A playlist with a directive in white space, a line feed and a URI has
\* been rewritten: the first line is as it was, the second is not.
C20_Witness ==
    /\ rewriteCall.called
    /\ ~rewriteCall.threw
    /\ rewriteCall.playlistText = " #EXT\ns.ts"
    /\ split(rewriteCall.text)[1] = " #EXT"
    /\ split(rewriteCall.text)[2] # "s.ts"

\* The playlist of the specification's example, rewritten for the base
\* https://host/path/index.m3u8 and the referer https://ref/.
ExampleRewritten ==
    rewritePlaylistUrls("#EXTM3U\n#EXT-X-VERSION:3\nseg1.ts\n#EXT-X-ENDLIST",
                        "https://host/path/index.m3u8", "https://ref/")

\* What the rewrite must put in place of a line, for the lines whose
\* replacement is written out here by hand (base https://h/p/a.m3u8,
\* referer https://r/); "" for every other line.
ExpectedLine(line) ==
    IF line = "s.ts"
    THEN "?url=https%3A%2F%2Fh%2Fp%2Fs.ts&referer=https%3A%2F%2Fr%2F"
    ELSE IF line = "https://o/y"
    THEN "?url=https%3A%2F%2Fo%2Fy&referer=https%3A%2F%2Fr%2F"
    ELSE IF line = " s.ts\r"
    THEN "?url=https%3A%2F%2Fh%2Fp%2Fs.ts&referer=https%3A%2F%2Fr%2F"
    ELSE IF line = "s.ts s.ts"
    THEN "?url=https%3A%2F%2Fh%2Fp%2Fs.ts%2520s.ts&referer=https%3A%2F%2Fr%2F"
    ELSE ""

\* C21: in the text a rewrite returns, every line that is neither blank nor
\* a directive and that resolves against the base is replaced by exactly
\* "?url=" + the component-encoded absolute URL + "&referer=" + the
\* component-encoded referer (for the lines written out in ExpectedLine, by
\* exactly that string), and the playlist of the specification's example
\* comes out with its three directives kept and seg1.ts replaced by
\* ?url=https%3A%2F%2Fhost%2Fpath%2Fseg1.ts&referer=https%3A%2F%2Fref%2F.
C21_UriLinesBecomeProxyReferences ==
    /\ ~ExampleRewritten.threw
    /\ ExampleRewritten.text =
          "#EXTM3U\n#EXT-X-VERSION:3\n"
          \o "?url=https%3A%2F%2Fhost%2Fpath%2Fseg1.ts&referer=https%3A%2F%2Fref%2F"
          \o "\n#EXT-X-ENDLIST"
    /\ (rewriteCall.called /\ ~rewriteCall.threw) =>
          LET input == split(rewriteCall.playlistText)
              output == split(rewriteCall.text)
              base == parseUrl(rewriteCall.baseUrl)
          IN  \A i \in 1..Len(input) :
                 LET t == trim(input[i])
                     resolved == resolveUrl(t, base)
                 IN  (t # "" /\ SubSeq(t, 1, 1) # "#" /\ resolved.ok) =>
                        /\ output[i] =
                              "?url=" \o encodeURIComponent(href(resolved))
                              \o "&referer="
                              \o encodeURIComponent(rewriteCall.referer)
                        /\ ExpectedLine(input[i]) \in {"", output[i]}

\* A playlist of a directive and a relative URI has been rewritten: the
\* URI line is now the proxy reference to https://h/p/s.ts.
C21_Witness ==
    /\ rewriteCall.called
    /\ ~rewriteCall.threw
    /\ rewriteCall.playlistText = "#EXT\ns.ts"
    /\ rewriteCall.text =
          "#EXT\n?url=https%3A%2F%2Fh%2Fp%2Fs.ts&referer=https%3A%2F%2Fr%2F"

(***************************************************************************)
(* Properties of the handler (checked under Spec).                         *)
(***************************************************************************)
\* Request r takes the step from pc p to pc q.
Moves(r, p, q) == reqs[r].pc = p /\ reqs'[r].pc = q

\* C6: a playlist request that misses and whose upstream answers 2xx makes
\* exactly one fetch and one rewrite; a request for the same url that starts
\* after it has completed, while the entry it stored is held and within the
\* playlist TTL, makes no fetch and returns the same body.
C6_SecondRequestFromCache ==
    [][\A r \in Reqs :
          /\ (Moves(r, "reading", "done") /\ reqs[r].isM3U8
              /\ reqs'[r].resp.status = 200)
                => reqs'[r].fetches = 1 /\ reqs'[r].rewrites = 1
          /\ \A f \in Reqs \ {r} :
                (/\ reqs[f].pc = "done"
                 /\ reqs[f].isM3U8
                 /\ reqs[f].fetches = 1
                 /\ reqs[f].resp.status = 200
                 /\ reqs[r].pc = "idle"
                 /\ reqs'[r].pc # "idle"
                 /\ reqs'[r].url = reqs[f].url
                 /\ MapHas(cache, reqs[f].url.val)
                 /\ MapGet(cache, reqs[f].url.val).data = reqs[f].resp.body
                 /\ now - MapGet(cache, reqs[f].url.val).timestamp
                        <= 600 * 1000)
                =>
                (/\ reqs'[r].pc = "done"
                 /\ reqs'[r].fetches = 0
                 /\ reqs'[r].resp.status = 200
                 /\ reqs'[r].resp.body = reqs[f].resp.body)
      ]_vars

C8_ExceptionGives500NoSet ==
    [][\A r \in Reqs :
          (reqs[r].error = "" /\ reqs'[r].error # "")
          =>
          (/\ reqs'[r].pc = "done"
           /\ reqs'[r].resp.status = 500
           /\ reqs'[r].resp.body = Str("Proxy Error: " \o reqs'[r].error)
           /\ reqs'[r].sets = 0
           /\ cache' = cache)
      ]_vars

\* One request failed in its fetch and another in its body read; the key of
\* the latter is not held.
C8_Witness ==
    \E r, o \in Reqs :
        /\ reqs[r].pc = "done" /\ reqs[r].error = "terminated"
        /\ reqs[r].resp.status = 500
        /\ reqs[r].upstream = 200
        /\ ~MapHas(cache, reqs[r].url.val)
        /\ reqs[o].pc = "done" /\ reqs[o].error = "fetch failed"
        /\ reqs[o].resp.status = 500

\* C9: a request without url parameter, or with an empty one, is answered
\* 400 "URL required", calls neither getCached nor setCache nor fetch, and
\* leaves the store as it is.
C9_MissingUrlIs400 ==
    [][\A r \in Reqs :
          (/\ reqs[r].pc = "idle"
           /\ reqs'[r].pc # "idle"
           /\ (~reqs'[r].url.has \/ reqs'[r].url.val = ""))
          =>
          (/\ reqs'[r].pc = "done"
           /\ reqs'[r].resp.status = 400
           /\ reqs'[r].resp.body = Str("URL required")
           /\ reqs'[r].lookups = 0
           /\ reqs'[r].fetches = 0
           /\ reqs'[r].sets = 0
           /\ cache' = cache)
      ]_vars

\* A request with an empty url parameter was answered 400 while the store
\* held an entry.
C9_Witness ==
    \E r \in Reqs :
        /\ reqs[r].pc = "done"
        /\ reqs[r].url = Param("")
        /\ reqs[r].resp.status = 400
        /\ Len(cache) > 0

\* C10: the store never holds two entries for one key; a request that missed
\* fetches whatever else is in flight; and a request that stores leaves
\* exactly one entry for its key, with its own payload and the time of its
\* write (last writer wins).
UniqueKeys(m) == \A i, j \in 1..Len(m) : m[i].key = m[j].key => i = j

C10_LastWriterWins ==
    [][/\ UniqueKeys(cache')
       /\ \A r \in Reqs :
             /\ (reqs'[r].pc \in {"fetching", "reading"})
                    => reqs'[r].fetches = 1
             /\ (Moves(r, "reading", "done") /\ reqs'[r].resp.status = 200)
                    =>
                    /\ reqs'[r].sets = 1
                    /\ Cardinality({i \in 1..Len(cache') :
                           cache'[i].key = reqs[r].url.val}) = 1
                    /\ MapGet(cache', reqs[r].url.val) =
                           [data |-> reqs'[r].resp.body, timestamp |-> now]
      ]_vars

\* C12: when every pending fetch and body read settles, there is a time from
\* which every request that was received is DONE, each with exactly one
\* response: 400 for a missing
\* url, 200 for a hit or a fetched 2xx, the upstream's status for a non-2xx,
\* 500 for an exception; a request that is not DONE has no response, and a
\* request that is DONE never changes again.
WellFormed(q) ==
    /\ q.resp.body # null
    /\ \/ q.resp.status = 400 /\ (~q.url.has \/ q.url.val = "")
       \/ /\ q.resp.status = 200
          /\ q.error = ""
          /\ q.url.has /\ q.url.val # ""
          /\ q.fetches = 0 \/ q.upstream \in 200..299
       \/ /\ q.resp.status = q.upstream
          /\ q.upstream \in 100..599 \ (200..299)
          /\ q.error = ""
       \/ q.resp.status = 500 /\ q.error # ""

C12_EveryRequestAnswered ==
    /\ [](\A r \in Reqs :
            IF reqs[r].pc = "done" THEN WellFormed(reqs[r])
            ELSE reqs[r].resp = NoResponse)
    /\ [][\A r \in Reqs : reqs[r].pc = "done" => reqs'[r] = reqs[r]]_vars
    /\ <>[](\A r \in Reqs : reqs[r].pc \in {"idle", "done"})

\* A request whose body read failed has been answered 500 after another
\* had been answered with its upstream's 404.
C12_Witness ==
    \E r, o \in Reqs :
        /\ o < r
        /\ reqs[r].pc = "done" /\ reqs[r].resp.status = 500
        /\ reqs[r].upstream = 200 /\ reqs[r].error # ""
        /\ reqs[o].pc = "done" /\ reqs[o].resp.status = 404

\* C13: the steps of a request occur only in the order RECEIVED,
\* CACHE_LOOKUP, CACHE_HIT or CACHE_MISS, FETCHING, REWRITING, CACHE_STORE,
\* RESPONDING, DONE, each at most once: a fetch only after a lookup that
\* missed, a rewrite only for a key ending in ".m3u8", a cache write only
\* after a 2xx fetch of the request (and after the rewrite for a playlist)
\* and before the response; and the store gets a new or changed entry only
\* in a step where a request performs its CACHE_STORE.
StepRank(step) ==
    CASE step = "RECEIVED" -> 1
      [] step = "CACHE_LOOKUP" -> 2
      [] step \in {"CACHE_HIT", "CACHE_MISS"} -> 3
      [] step = "FETCHING" -> 4
      [] step = "REWRITING" -> 5
      [] step = "CACHE_STORE" -> 6
      [] step = "RESPONDING" -> 7
      [] step = "DONE" -> 8
Took(q, step) == \E i \in 1..Len(q.steps) : q.steps[i] = step
Times(q, step) == Cardinality({i \in 1..Len(q.steps) : q.steps[i] = step})

StepsInOrder(q) ==
    /\ \A i, j \in 1..Len(q.steps) :
          i < j => StepRank(q.steps[i]) < StepRank(q.steps[j])
    /\ (q.pc # "idle") <=> Took(q, "RECEIVED")
    /\ (q.pc = "done") <=> Took(q, "DONE")
    /\ Took(q, "DONE") <=> Took(q, "RESPONDING")
    /\ Took(q, "CACHE_HIT") \/ Took(q, "CACHE_MISS")
          <=> Took(q, "CACHE_LOOKUP")
    /\ Took(q, "CACHE_HIT") =>
          /\ ~Took(q, "FETCHING")
          /\ ~Took(q, "REWRITING")
          /\ ~Took(q, "CACHE_STORE")
    /\ Took(q, "FETCHING") <=> Took(q, "CACHE_MISS")
    /\ Took(q, "REWRITING") =>
          /\ endsWith(q.url.val, ".m3u8")
          /\ Took(q, "FETCHING")
          /\ q.upstream \in 200..299
    /\ Took(q, "CACHE_STORE") =>
          /\ Took(q, "FETCHING")
          /\ q.upstream \in 200..299
          /\ endsWith(q.url.val, ".m3u8") => Took(q, "REWRITING")
          /\ Took(q, "RESPONDING")
    /\ q.lookups = Times(q, "CACHE_LOOKUP")
    /\ q.fetches = Times(q, "FETCHING")
    /\ q.rewrites = Times(q, "REWRITING")
    /\ q.sets = Times(q, "CACHE_STORE")

C14_KeyIsRawUrl ==
    [][\A r \in Reqs :
          (/\ reqs[r].pc = "idle"
           /\ reqs'[r].pc # "idle"
           /\ reqs'[r].url.has /\ reqs'[r].url.val # "")
          =>
          LET k == reqs'[r].url.val
          IN  IF \E i \in 1..Len(cache) :
                    /\ cache[i].key = k
                    /\ ~IsExpired(k, cache[i].value, now)
              THEN /\ reqs'[r].pc = "done"
                   /\ reqs'[r].fetches = 0
                   /\ reqs'[r].resp.status = 200
                   /\ \E i \in 1..Len(cache) :
                         /\ cache[i].key = k
                         /\ reqs'[r].resp.body = cache[i].value.data
                   /\ cache' = cache
              ELSE /\ reqs'[r].pc = "fetching"
                   /\ reqs'[r].fetches = 1
      ]_vars

\* C18: every 200 response, from the cache or from a fresh fetch, has
\* Content-Type application/vnd.apple.mpegurl and Cache-Control
\* "public, max-age=600" when the url ends with ".m3u8", and video/mp2t and
\* "public, max-age=31536000" otherwise, and Access-Control-Allow-Origin "*".
C18_HeadersByUrlSuffix ==
    \A r \in Reqs :
        reqs[r].resp.status = 200 =>
            LET u == reqs[r].url.val
                playlist == /\ Len(u) >= 5
                            /\ SubSeq(u, Len(u) - 4, Len(u)) = ".m3u8"
            IN  /\ reqs[r].resp.allowOrigin = "*"
                /\ playlist =>
                      /\ reqs[r].resp.contentType =
                             "application/vnd.apple.mpegurl"
                      /\ reqs[r].resp.cacheControl = "public, max-age=600"
                /\ ~playlist =>
                      /\ reqs[r].resp.contentType = "video/mp2t"
                      /\ reqs[r].resp.cacheControl =
                             "public, max-age=31536000"

\* One request has been answered 200 from a fetch and another, for the same
\* url, from the cache.
C18_Witness ==
    \E r, o \in Reqs :
        /\ reqs[r].resp.status = 200 /\ reqs[r].fetches = 1
        /\ reqs[o].resp.status = 200 /\ reqs[o].fetches = 0
        /\ reqs[o].url = reqs[r].url
        /\ reqs[o].resp.contentType = reqs[r].resp.contentType
        /\ reqs[o].resp.cacheControl = reqs[r].resp.cacheControl

\* The seconds of the max-age directive that ends a Cache-Control value.
MaxAgeSeconds(cacheControl) ==
    LET eq == IndexFrom(cacheControl, "=", 1)
    IN  IF eq >= 8 /\ SubSeq(cacheControl, eq - 7, eq) = "max-age="
        THEN DecimalValue(SubSeq(cacheControl, eq + 1, Len(cacheControl)))
        ELSE -1

\* C19: on a cache hit the max-age of the response's Cache-Control is the
\* TTL, in seconds, that the store applies to the key: the playlist TTL for a
\* key ending in ".m3u8", the segment TTL for every other key.
C19_HitMaxAgeIsStoreTtl ==
    \A r \in Reqs :
        (/\ reqs[r].resp.status = 200
         /\ reqs[r].lookups = 1
         /\ reqs[r].fetches = 0)
        =>
        MaxAgeSeconds(reqs[r].resp.cacheControl) =
            (IF endsWith(reqs[r].url.val, ".m3u8") THEN CACHE_TTL_M3U8
             ELSE CACHE_TTL_SEGMENT) \div 1000

\* Two requests for one key missed while both were in flight, both stored,
\* with different payloads, and the store holds the key once.
C10_Witness ==
    \E r, o \in Reqs :
        /\ r # o
        /\ reqs[r].pc = "done" /\ reqs[o].pc = "done"
        /\ reqs[r].url = reqs[o].url
        /\ reqs[r].sets = 1 /\ reqs[o].sets = 1
        /\ reqs[r].concurrent
        /\ reqs[r].resp.body # reqs[o].resp.body
        /\ Cardinality({i \in 1..Len(cache) :
               cache[i].key = reqs[r].url.val}) = 1
        /\ MapGet(cache, reqs[r].url.val).data = reqs[r].resp.body

\* Playlists of three lines, each line one that is no URI, a URI, a
\* directive or blank, rewritten for the base https://h/p/a.m3u8.
ThreeLinePlaylists ==
    LET Lines == {"http:// b", "s.ts", "#EXT", ""}
    IN  [text \in {a \o "\n" \o b \o "\n" \o c : a, b, c \in Lines}
            |-> rewritePlaylistUrls(text, "https://h/p/a.m3u8", "https://r/")]

\* In every one of them the rewrite returned, the lines that are no URI are
\* as they were and the URI lines are replaced.
UnresolvedLinesKept ==
    \A text \in DOMAIN ThreeLinePlaylists :
        LET input == split(text)
            result == ThreeLinePlaylists[text]
            output == split(result.text)
        IN  /\ ~result.threw
            /\ Len(output) = 3
            /\ \A i \in 1..3 :
                  /\ input[i] = "http:// b" => output[i] = "http:// b"
                  /\ input[i] = "s.ts" =>
                        output[i] = "?url=https%3A%2F%2Fh%2Fp%2Fs.ts"
                                    \o "&referer=https%3A%2F%2Fr%2F"

\* C22: a URI line that does not resolve is in the rewritten text as it was
\* in the playlist, the lines around it are rewritten as usual, and the
\* rewrite returns: every three-line playlist with lines that are no URI
\* comes back with these lines unchanged and its URI lines replaced, and
\* every request whose upstream playlist was rewritten is answered 200 with
\* no exception caught, a playlist with a line that is no URI included.
C22_UnresolvedLinePassesThrough ==
    /\ UnresolvedLinesKept
    /\ \A r \in Reqs :
          (reqs[r].pc = "done" /\ reqs[r].rewrites = 1) =>
              /\ reqs[r].resp.status = 200
              /\ reqs[r].error = ""
              /\ reqs[r].resp.body.val # "" =>
                    LET output == split(reqs[r].resp.body.val)
                    IN  /\ Len(output) = 3
                        /\ output[1] = "#EXTM3U"
                        /\ output[2] = "http:// b"
                        /\ SubSeq(output[3], 1, 5) = "?url="

\* A request was answered 200 with a freshly rewritten playlist whose second
\* line is the upstream's line that is no URI and whose third line is the
\* proxy reference to seg1.ts.
C22_Witness ==
    \E r \in Reqs :
        /\ reqs[r].pc = "done"
        /\ reqs[r].rewrites = 1
        /\ reqs[r].sets = 1
        /\ reqs[r].referer = "https://ref/"
        /\ reqs[r].resp.status = 200
        /\ reqs[r].resp.body =
              Str("#EXTM3U\nhttp:// b\n"
                  \o "?url=https%3A%2F%2Fh%2Fseg1.ts&referer=https%3A%2F%2Fref%2F")

\* C24: whenever a request arrives for a url under which the store holds an
\* entry that has not expired, whatever its payload (a text, the empty text,
\* bytes, no bytes), the request takes the step CACHE_HIT and is done with
\* it: it issues no fetch, calls no setCache and leaves the store as it is.
C24_UnexpiredEntryIsHit ==
    [][\A r \in Reqs :
          (/\ reqs[r].pc = "idle"
           /\ reqs'[r].pc # "idle"
           /\ ParamTruthy(reqs'[r].url)
           /\ MapHas(cache, reqs'[r].url.val)
           /\ ~IsExpired(reqs'[r].url.val,
                         MapGet(cache, reqs'[r].url.val), now))
          =>
          (/\ Took(reqs'[r], "CACHE_HIT")
           /\ ~Took(reqs'[r], "CACHE_MISS")
           /\ ~Took(reqs'[r], "FETCHING")
           /\ reqs'[r].fetches = 0
           /\ reqs'[r].sets = 0
           /\ cache' = cache)
      ]_vars

\* The component-encoded form of every referer a request can have.
EncodedReferers ==
    [referer \in {EffectiveReferer(q) : q \in RefererParams}
        |-> encodeURIComponent(referer)]

\* C25: in every 200 answer with a playlist, fetched or from the store, each
\* rewritten line ("?url=...") ends in "&referer=" and the encoded referer
\* of the request that is answered.
C25_PlaylistCarriesOwnReferer ==
    \A r \in Reqs :
        (/\ reqs[r].pc = "done"
         /\ reqs[r].isM3U8
         /\ reqs[r].resp.status = 200)
        =>
        LET lines == split(reqs[r].resp.body.val)
            suffix == "&referer=" \o EncodedReferers[reqs[r].referer]
        IN  \A i \in 1..Len(lines) :
               startsWith(lines[i], "?url=") => endsWith(lines[i], suffix)

\* C26: every entry of the store whose key ends in ".m3u8" holds a text and
\* every other entry holds bytes, and a request answered from the store is
\* sent a text exactly with the playlist Content-Type and bytes exactly
\* with video/mp2t.
C26_PayloadKindFollowsKey ==
    /\ \A i \in 1..Len(cache) :
          cache[i].value.data.kind =
              (IF endsWith(cache[i].key, ".m3u8") THEN "string" ELSE "Buffer")
    /\ \A r \in Reqs :
          (/\ reqs[r].pc = "done"
           /\ Took(reqs[r], "CACHE_HIT"))
          =>
          /\ reqs[r].resp.status = 200
          /\ reqs[r].resp.contentType \in
                {"application/vnd.apple.mpegurl", "video/mp2t"}
          /\ reqs[r].resp.body.kind =
                (IF reqs[r].resp.contentType = "application/vnd.apple.mpegurl"
                 THEN "string" ELSE "Buffer")

\* The store holds bytes under a segment's url, and a request for that url
\* was answered from the store with these bytes as video/mp2t.
C26_Witness ==
    \E r \in Reqs :
        /\ reqs[r].pc = "done"
        /\ Took(reqs[r], "CACHE_HIT")
        /\ reqs[r].resp.contentType = "video/mp2t"
        /\ reqs[r].resp.body.kind = "Buffer"
        /\ MapHas(cache, reqs[r].url.val)
        /\ MapGet(cache, reqs[r].url.val).data = reqs[r].resp.body
        /\ ~endsWith(reqs[r].url.val, ".m3u8")

(***************************************************************************)
(* Properties of the referer (checked under SpecReferer).                  *)
(***************************************************************************)
\* The Origin header that goes with a referer: its scheme and host when it
\* is a URL, none otherwise.
ExpectedOrigin(referer) ==
    IF referer = "https://ref/" THEN Param("https://ref")
    ELSE IF referer = "https://megacloud.club/"
    THEN Param("https://megacloud.club")
    ELSE Absent

\* C23: the referer of a request is its referer parameter when that is given
\* and not empty, and https://megacloud.club/ otherwise; every fetch carries
\* it as the Referer header, with an Origin header of its scheme and host
\* exactly when it is a URL; and no fetch fails because of the referer: a
\* request that fetched and caught an exception caught a failure of the
\* network or of the body read.
C23_RefererSentNeverFails ==
    \A r \in Reqs :
        reqs[r].pc # "idle" =>
            /\ reqs[r].referer =
                  (IF reqs[r].refererParam.has /\ reqs[r].refererParam.val # ""
                   THEN reqs[r].refererParam.val
                   ELSE "https://megacloud.club/")
            /\ reqs[r].fetches = 1 =>
                  /\ reqs[r].headers.referer = Param(reqs[r].referer)
                  /\ reqs[r].headers.origin = ExpectedOrigin(reqs[r].referer)
                  /\ reqs[r].error \in {"", "fetch failed", "terminated"}

(***************************************************************************)
(* Properties of getOrSet and of POST /messages (checked under SpecAside). *)
(***************************************************************************)
\* C27: a call of getOrSet whose key holds a value that has not expired
\* returns that value and does not invoke the dataGetter, whatever the value
\* (0, false, "" and null included); a call whose key holds none invokes
\* the dataGetter, and then stores the text of what it returned under the
\* key with the caller's expiry and returns it, having invoked the
\* dataGetter once.
C27_GetOrSetIsCacheAside ==
    [][\A p \in Calls :
          /\ (calls[p].pc = "idle" /\ calls'[p].pc # "idle") =>
                LET held == redisGet(redis, calls'[p].key, clock)
                IN  IF held.has
                    THEN /\ calls'[p].pc = "done"
                         /\ calls'[p].getterCalls = 0
                         /\ calls'[p].result = JSONparse(held.val)
                    ELSE calls'[p].pc = "getter"
          /\ (calls[p].pc = "setting" /\ calls'[p].pc = "done") =>
                /\ calls'[p].getterCalls = 1
                /\ calls'[p].result = calls[p].data
                /\ redis'[calls[p].key] =
                      [has |-> TRUE,
                       val |-> JSONstringify(calls[p].data),
                       exp |-> clock + ExpirySeconds(calls[p].key)]
      ]_vars

\* C28: a call for the page of chat messages that begins after a POST
\* /messages has returned success is not answered from the store with a
\* page that was read from the collection before the message of that POST
\* was inserted: a page returned without the dataGetter lists at least the
\* messages acknowledged when the call began.
C28_NoStalePageAfterPost ==
    \A p \in Calls :
        (/\ calls[p].pc = "done"
         /\ startsWith(calls[p].key, "chat:messages:")
         /\ calls[p].getterCalls = 0)
        => calls[p].result.num >= calls[p].mustSee

(***************************************************************************)
(* Properties of the middlewares (checked under SpecAuth).                 *)
(***************************************************************************)
\* C29: a request that has passed through authMiddleware while Firebase was
\* not configured has had the downstream handler invoked (next() called)
\* and was not rejected.
C29_UnconfiguredFallsBack ==
    \A a \in Auths :
        (/\ auths[a].pc = "done"
         /\ auths[a].middleware = "authMiddleware"
         /\ ~auths[a].configured)
        => (auths[a].nextCalled /\ auths[a].status # 401)

\* The bearer token an Authorization header carries ("" when it carries
\* none), the uid a token verifies to ("" when it does not verify), and the
\* uids whose users document has isAdmin === true.
BearerTokenOf(authHeader) ==
    IF authHeader = Param("Bearer ta") THEN "ta"
    ELSE IF authHeader = Param("bearer tb") THEN "tb"
    ELSE IF authHeader = Param("BEARER tg") THEN "tg"
    ELSE IF authHeader = Param("Bearer tx") THEN "tx"
    ELSE IF authHeader = Param("Bearer te") THEN "te"
    ELSE ""
VerifiedUidOf(token) ==
    IF token = "ta" THEN "a"
    ELSE IF token = "tb" THEN "b"
    ELSE IF token = "tg" THEN "g"
    ELSE ""
AdminUids == {"a"}

\* C30: the handler behind adminMiddleware has run only for a request with
\* Firebase configured whose Authorization header carried a bearer token
\* that verified to a uid whose users document has isAdmin === true, and
\* then the uid in the context is that uid, whatever uid the client wrote;
\* every other request was answered 401, 403 or 500 with nothing put in the
\* context.
C30_AdminHandlerOnlyForAdmins ==
    \A a \in Auths :
        (auths[a].pc = "done" /\ auths[a].middleware = "adminMiddleware") =>
            IF auths[a].nextCalled
            THEN /\ auths[a].configured
                 /\ VerifiedUidOf(BearerTokenOf(auths[a].authHeader))
                        \in AdminUids
                 /\ auths[a].ctx.uid =
                        Param(VerifiedUidOf(BearerTokenOf(auths[a].authHeader)))
                 /\ auths[a].ctx.isAdmin = Param("true")
            ELSE /\ auths[a].status \in {401, 403, 500}
                 /\ auths[a].ctx = NoCtx

\* The handler behind adminMiddleware has run for the admin a, whose
\* request named the uid b: the context holds a.
C30_Witness ==
    \E a \in Auths :
        /\ auths[a].pc = "done"
        /\ auths[a].middleware = "adminMiddleware"
        /\ auths[a].nextCalled
        /\ auths[a].clientUid = Param("b")
        /\ auths[a].ctx.uid = Param("a")
====
